---- MODULE Spec2Model ----
(***************************************************************************)
(* A model of the chunked pagination of MarkdownReader:                    *)
(*   src/src/hooks/useChunkPagination.ts   (the window manager hook)       *)
(*   src/src/utils/markdownPagination.ts   (splitMarkdownIntoChunks)       *)
(*   src/src/constants/index.ts            (CHUNK_SIZE, debounce)          *)
(* and of its reading positions:                                           *)
(*   src/unnamed/part_002                  (the position store)            *)
(*   src/HEADING_BASED_POSITION_RESTORE.md (restore on open)               *)
(*   src/src/components/MarkdownReader.tsx (close, auto-save, unmount)     *)
(*   src/src/components/WebViewMarkdownReader.tsx (getScrollPosition)      *)
(* and of the page that shows the loaded window:                           *)
(*   src/src/components/WebViewMarkdownReader.tsx (createHtmlFile,         *)
(*                          appendContent, prependContent, replaceContent) *)
(*   src/src/components/MarkdownReader.tsx (loadDocument, loadMoreContent  *)
(*                          of the append-only reader)                     *)
(*   src/unnamed/part_009                  (the reader built on the hook)  *)
(* Each part has its own specification; the variables of the other parts   *)
(* keep their initial values in it.                                        *)
(*                                                                         *)
(* Strings are sequences of one-character strings.  The hook never looks   *)
(* at the characters of its document, so its documents are prefixes of an  *)
(* alphabet of pairwise distinct characters: two different slices of a     *)
(* document are then different strings.                                    *)
(***************************************************************************)
EXTENDS Integers, Sequences, FiniteSets, TLC

\* ------------------------------------------------------------------------
\* Bounds of the model
\* ------------------------------------------------------------------------

\* CHUNK_SIZE is 25000 in src/src/constants/index.ts:10; the model scales it
\* down so that documents of a few characters span several chunks.
CHUNK_SIZE == 2

\* TARGET_CHUNK_SIZE is 50000 in src/src/utils/markdownPagination.ts:6;
\* scaled down in the same way.
TARGET_CHUNK_SIZE == 10

\* Longest document explored (characters).
MaxDocLen == 7

\* Largest numChunks passed to loadInitialChunks.
MaxNumChunks == 3

\* Chunk indices passed to loadInitialChunks and jumpToChunk range from
\* MaxOver below the first chunk to MaxOver past the last one.
MaxOver == 1

\* Date.now() when the hook is mounted.  The real clock reads milliseconds
\* since 1970, far more than the debounce interval past the initial
\* lastScrollEventTime of 0.
Epoch == 2000

\* The clock is explored up to Epoch + MaxElapsed.
MaxElapsed == 2000

\* Most lines of a markdown document handed to splitMarkdownIntoChunks.
MaxLines == 4

\* Most calls of saveReadingPosition and getReadingPosition in a run.
MaxCalls == 3

\* Most headings of a document that is opened; saved heading ids range up to
\* one that no document has.
MaxHeadings == 2

\* A scroll offset other than 0 found in a saved position.
SavedOffset == 3

\* Most ticks of the auto-save interval while a document is open.
MaxTicks == 1

\* The page of the open document scrolls from 0 to MaxScroll.
MaxScroll == 1

\* Most rebuilds of the WebView page while a document is open.
MaxRebuilds == 1

\* The number of changes of the font size explored.
MaxFontChanges == 1

\* ------------------------------------------------------------------------
\* Program constants
\* ------------------------------------------------------------------------

CHUNK_LOAD_DEBOUNCE_MS == 2000

\* The number of chunks loaded around a position.
INITIAL_CHUNK_COUNT == 3

\* The delay of the setTimeout that clears isLoadingMoreRef.
LOADING_RESET_DELAY_MS == 500

\* The debounce interval of the append-only reader's loadMoreContent
READER_DEBOUNCE_MS == 3000

\* ------------------------------------------------------------------------
\* Helpers: Math.min, Math.max, Math.ceil of a quotient, String.substring
\* ------------------------------------------------------------------------

Min(a, b) == IF a <= b THEN a ELSE b

Max(a, b) == IF a >= b THEN a ELSE b

\* Math.ceil(n / d) for n >= 0, d > 0
CeilDiv(n, d) == (n + d - 1) \div d

\* s.substring(a, b): both indices are clamped into [0, s.length] and
\* swapped when a > b.
Substring(s, a, b) ==
  LET ca == Max(0, Min(a, Len(s)))
      cb == Max(0, Min(b, Len(s)))
  IN  SubSeq(s, Min(ca, cb) + 1, Max(ca, cb))

\* The optional return value string | null
Null == << >>

Some(c) == << c >>

Alphabet == << "a", "b", "c", "d", "e", "f", "g", "h", "i", "j", "k", "l" >>

\* The lengths of the documents explored: the empty document, one of a
\* single short chunk, and two of several chunks.
DocumentLengths == { 0, 1, MaxDocLen - CHUNK_SIZE, MaxDocLen }

\* The documents the hook is mounted with.
Documents == { SubSeq(Alphabet, 1, n) : n \in DocumentLengths }

\* The delays by which the clock advances between two events: the cooldown
\* delay, and what is left of the debounce interval after it, less 1 ms.
TickSteps == { LOADING_RESET_DELAY_MS,
               CHUNK_LOAD_DEBOUNCE_MS - LOADING_RESET_DELAY_MS - 1 }

\* ------------------------------------------------------------------------
\* State
\* ------------------------------------------------------------------------
VARIABLES
  fullContent,          \* the hook's argument
  firstLoadedChunk,     \* firstLoadedChunkRef.current
  lastLoadedChunk,      \* lastLoadedChunkRef.current
  totalChunks,          \* totalChunksRef.current
  isLoadingMore,        \* isLoadingMoreRef.current
  lastScrollEventTime,  \* lastScrollEventTime.current
  currentContent,       \* the currentContent state
  timers,               \* deadlines of the pending setTimeout callbacks
  now,                  \* Date.now()
  initialized,          \* history: loadInitialChunks has run
  moreAdvancedAt,       \* history: time of the last loadMoreContent that loaded a chunk, or -1
  prevAdvancedAt,       \* history: time of the last loadPreviousContent that loaded a chunk, or -1
  lastCall,             \* history: the last call of a hook function, its arguments
                        \*          and its return value
  query,                \* history: the last call of a chunk table function
  markdownArg,          \* splitMarkdownIntoChunks: the argument markdown
  splitPc,              \* splitMarkdownIntoChunks: "idle", "scan" (in the loop) or "done"
  lineIndex,            \* splitMarkdownIntoChunks: i
  scan,                 \* splitMarkdownIntoChunks: chunks, currentChunk, currentSize,
                        \*                          chunkStartLine
  splitResult,          \* splitMarkdownIntoChunks: the returned chunks
  storage,              \* AsyncStorage: the item stored under POSITION_KEY
  calls,                \* the calls of saveReadingPosition and getReadingPosition:
                        \* arguments, position in the code, locals, outcome
  storeClock,           \* Date.now() of the position store; counts the calls made
  latest,               \* history: per document, the record of its last completed save
  cleanRun,             \* history: no two calls overlapped and no storage operation failed
  savedPosition,        \* opening a document: what getReadingPosition resolved to
  headingPositions,     \* opening a document: getHeadingPositions(markdown)
  headingToRestore,     \* headingToRestore.current
  scrollPositionToRestore, \* scrollPositionToRestore.current
  savedChunkIndexRef,   \* savedChunkIndexRef.current
  restorePc,            \* opening a document: "idle", "loaded", "ready", "restored"
  scrolledTo,           \* the last scroll of the rendering surface made by the restore
  closePc,              \* the Close button's onPress: "open", "scroll", "save", "back", "closed"
  autoPc,               \* the auto-save interval's callback: "idle", "scroll", "save"
  unmountPc,            \* the unmount cleanup's save: "idle", "scroll", "save", "done"
  mounted,              \* MarkdownReader is mounted
  webViewReady,         \* webViewReady of WebViewMarkdownReader
  scrollY,              \* window.pageYOffset of the page in the WebView
  scrollPositionResolverRef, \* the saver whose resolve function the ref holds
  scrollResult,         \* per saver, what its getScrollPosition resolved to, if it has
  fallbacks,            \* history: the savers whose getScrollPosition resolved to the
                        \* fallback 0 (WebView not ready, or timeout)
  replies,              \* injected scripts that have not posted their message yet
  ticks,                \* count of the auto-save interval's ticks
  rebuilds,             \* count of the rebuilds of the WebView page
  markdownProp,         \* the markdown prop MarkdownReader gives to the WebView
  surface,              \* the markdown rendered in #content of the page
  headingIds,           \* the k of the ids 'heading-k' of the headings of the page,
                        \* in DOM order
  webViewReadyRef,      \* webViewReady / webViewReadyRef of the WebView that shows
                        \* the document
  currentLoadedEndRef,  \* append-only reader: end offset of what has been loaded
  surfacePc,            \* "idle", "opened": the document has been given to the WebView
  fontChanges           \* count of the changes of the font size

hookVars == << fullContent, firstLoadedChunk, lastLoadedChunk, totalChunks,
               isLoadingMore, lastScrollEventTime, currentContent, timers, now,
               initialized, moreAdvancedAt, prevAdvancedAt, lastCall >>

tableVars == << query >>

splitVars == << markdownArg, splitPc, lineIndex, scan, splitResult >>

storeVars == << storage, calls, storeClock, latest, cleanRun >>

restoreVars == << savedPosition, headingPositions, headingToRestore,
                 scrollPositionToRestore, savedChunkIndexRef, restorePc, scrolledTo >>

closeVars == << closePc, autoPc, unmountPc, mounted, webViewReady, scrollY,
               scrollPositionResolverRef, scrollResult, fallbacks, replies,
               ticks, rebuilds >>

surfaceVars == << markdownProp, surface, headingIds, webViewReadyRef, currentLoadedEndRef,
                 surfacePc, fontChanges >>

vars == << hookVars, tableVars, splitVars, storeVars, restoreVars, closeVars,
           surfaceVars >>

\* No chunk table function has been called.
NoQuery == [ fn |-> "none", arg |-> 0, ret |-> 0 ]

\* What the window manager's actions leave alone.
HookFrame ==
  UNCHANGED << tableVars, splitVars, storeVars, restoreVars, closeVars, surfaceVars >>

\* What the calls of the chunk table functions leave alone.
TableFrame ==
  UNCHANGED << hookVars, splitVars, storeVars, restoreVars, closeVars, surfaceVars >>

\* What splitMarkdownIntoChunks leaves alone.
SplitFrame ==
  UNCHANGED << hookVars, tableVars, storeVars, restoreVars, closeVars, surfaceVars >>

\* What the position store leaves alone.
StoreFrame ==
  UNCHANGED << hookVars, tableVars, splitVars, restoreVars, closeVars, surfaceVars >>

\* ------------------------------------------------------------------------
\* useChunkPagination
\* ------------------------------------------------------------------------

\* Mutant: the last, shorter chunk is not counted.
getTotalChunks_floor == Len(fullContent) \div CHUNK_SIZE

getTotalChunks == CeilDiv(Len(fullContent), CHUNK_SIZE)

\* Math.floor(position / CHUNK_SIZE); \div rounds down, as Math.floor does.
getChunkForPosition(position) == position \div CHUNK_SIZE

\* Mutant: the end of the slice is one character short.
getChunkContent_shortEnd(chunkIndex) ==
  LET start == chunkIndex * CHUNK_SIZE
      end   == Min(start + CHUNK_SIZE, Len(fullContent)) - 1
  IN  Substring(fullContent, start, end)

getChunkContent(chunkIndex) ==
  LET start == chunkIndex * CHUNK_SIZE
      end   == Min(start + CHUNK_SIZE, Len(fullContent))
  IN  Substring(fullContent, start, end)

\* let content = ''; for (i = lo; i <= hi; i++) content += getChunkContent(i)
RECURSIVE ConcatChunks(_, _)
ConcatChunks(lo, hi) ==
  IF lo > hi THEN << >>
  ELSE getChunkContent(lo) \o ConcatChunks(lo + 1, hi)

\* The operations that extend the window by one chunk.
ExtendOps == { "loadMoreContent", "loadPreviousContent" }

\* The record of a call: what was called, with what, what it returned and
\* at which return statement (`exit`).  For a jumpToChunk that directly
\* follows a loadInitialChunks, `after` holds the arguments of that
\* loadInitialChunks; for a loadMoreContent or loadPreviousContent that
\* loaded a chunk directly after one that returned null, it holds the exit
\* of that one; otherwise it is empty.
CallAt(op, a1, a2, ret, exit) ==
  [ op |-> op, arg |-> a1, num |-> a2, ret |-> ret, exit |-> exit,
    after |-> IF op = "jumpToChunk" /\ lastCall.op = "loadInitialChunks"
              THEN << lastCall.arg, lastCall.num >>
              ELSE IF /\ op \in ExtendOps
                      /\ ret # Null
                      /\ lastCall.op \in ExtendOps
                      /\ lastCall.ret = Null
              THEN << lastCall.exit >>
              ELSE << >> ]

loadInitialChunks(startChunkIndex, numChunks) ==
  LET total      == getTotalChunks
      firstChunk == Max(0, Min(startChunkIndex, total - 1))
      lastChunk  == Min(firstChunk + numChunks - 1, total - 1)
      content    == ConcatChunks(firstChunk, lastChunk)
  IN  /\ totalChunks' = total
      /\ firstLoadedChunk' = firstChunk
      /\ lastLoadedChunk' = lastChunk
      /\ currentContent' = content
      /\ initialized' = TRUE
      /\ lastCall' = CallAt("loadInitialChunks", startChunkIndex, numChunks, Some(content), "end")
      /\ UNCHANGED << fullContent, isLoadingMore, lastScrollEventTime, timers,
                      now, moreAdvancedAt, prevAdvancedAt >>

\* Mutant: a call that returns null still stamps the debounce time.
Rejected_stampsTime(op, exit) ==
  /\ lastCall' = CallAt(op, 0, 0, Null, exit)
  /\ lastScrollEventTime' = now
  /\ UNCHANGED << fullContent, firstLoadedChunk, lastLoadedChunk, totalChunks,
                  isLoadingMore, currentContent, timers,
                  now, initialized, moreAdvancedAt, prevAdvancedAt >>

\* A call that returns null before it changes anything.
Rejected(op, exit) ==
  /\ lastCall' = CallAt(op, 0, 0, Null, exit)
  /\ UNCHANGED << fullContent, firstLoadedChunk, lastLoadedChunk, totalChunks,
                  isLoadingMore, lastScrollEventTime, currentContent, timers,
                  now, initialized, moreAdvancedAt, prevAdvancedAt >>

\* Mutant: the boundary test lets the window run one chunk past the end.
noNextChunk_offByOne(nextChunk) == nextChunk > totalChunks

\* if (nextChunk >= totalChunks)
noNextChunk(nextChunk) == nextChunk >= totalChunks

\* Mutant: the debounce lasts only as long as the cooldown.
loadMoreDebounced_cooldownOnly == now - lastScrollEventTime < LOADING_RESET_DELAY_MS

\* if (now - lastScrollEventTime.current < CHUNK_LOAD_DEBOUNCE_MS)
loadMoreDebounced == now - lastScrollEventTime < CHUNK_LOAD_DEBOUNCE_MS

\* Mutant: the flag is set and no timer is started to clear it.
loadMoreContent_noTimer ==
  LET nextChunk == lastLoadedChunk + 1
  IN  IF isLoadingMore THEN Rejected("loadMoreContent", "loading")
      ELSE IF noNextChunk(nextChunk) THEN Rejected("loadMoreContent", "boundary")
      ELSE IF loadMoreDebounced THEN Rejected("loadMoreContent", "debounce")
      ELSE /\ lastScrollEventTime' = now
           /\ isLoadingMore' = TRUE
           /\ lastLoadedChunk' = nextChunk
           /\ moreAdvancedAt' = now
           /\ lastCall' = CallAt("loadMoreContent", 0, 0, Some(getChunkContent(nextChunk)), "end")
           /\ UNCHANGED << fullContent, firstLoadedChunk, totalChunks, timers,
                           currentContent, now, initialized, prevAdvancedAt >>

loadMoreContent ==
  LET nextChunk == lastLoadedChunk + 1
  IN  IF isLoadingMore THEN Rejected("loadMoreContent", "loading")
      ELSE IF noNextChunk(nextChunk) THEN Rejected("loadMoreContent", "boundary")
      ELSE IF loadMoreDebounced THEN Rejected("loadMoreContent", "debounce")
      ELSE /\ lastScrollEventTime' = now
           /\ isLoadingMore' = TRUE
           /\ lastLoadedChunk' = nextChunk
           /\ timers' = timers \cup { now + LOADING_RESET_DELAY_MS }
           /\ moreAdvancedAt' = now
           /\ lastCall' = CallAt("loadMoreContent", 0, 0, Some(getChunkContent(nextChunk)), "end")
           /\ UNCHANGED << fullContent, firstLoadedChunk, totalChunks,
                           currentContent, now, initialized, prevAdvancedAt >>

\* Mutant: each direction debounces against its own last load.
loadPreviousDebounced_ownTimestamp == now - prevAdvancedAt < CHUNK_LOAD_DEBOUNCE_MS

\* if (now - lastScrollEventTime.current < CHUNK_LOAD_DEBOUNCE_MS)
loadPreviousDebounced == now - lastScrollEventTime < CHUNK_LOAD_DEBOUNCE_MS

\* Mutant: a debounced call restarts the debounce interval.
loadPreviousContent_debounceRestarts ==
  LET prevChunk == firstLoadedChunk - 1
  IN  IF isLoadingMore THEN Rejected("loadPreviousContent", "loading")
      ELSE IF prevChunk < 0 THEN Rejected("loadPreviousContent", "boundary")
      ELSE IF loadPreviousDebounced
      THEN /\ lastCall' = CallAt("loadPreviousContent", 0, 0, Null, "debounce")
           /\ lastScrollEventTime' = now
           /\ UNCHANGED << fullContent, firstLoadedChunk, lastLoadedChunk, totalChunks,
                           isLoadingMore, currentContent, timers,
                           now, initialized, moreAdvancedAt, prevAdvancedAt >>
      ELSE /\ lastScrollEventTime' = now
           /\ isLoadingMore' = TRUE
           /\ firstLoadedChunk' = prevChunk
           /\ timers' = timers \cup { now + LOADING_RESET_DELAY_MS }
           /\ prevAdvancedAt' = now
           /\ lastCall' = CallAt("loadPreviousContent", 0, 0, Some(getChunkContent(prevChunk)), "end")
           /\ UNCHANGED << fullContent, lastLoadedChunk, totalChunks,
                           currentContent, now, initialized, moreAdvancedAt >>

loadPreviousContent ==
  LET prevChunk == firstLoadedChunk - 1
  IN  IF isLoadingMore THEN Rejected("loadPreviousContent", "loading")
      ELSE IF prevChunk < 0 THEN Rejected("loadPreviousContent", "boundary")
      ELSE IF loadPreviousDebounced THEN Rejected("loadPreviousContent", "debounce")
      ELSE /\ lastScrollEventTime' = now
           /\ isLoadingMore' = TRUE
           /\ firstLoadedChunk' = prevChunk
           /\ timers' = timers \cup { now + LOADING_RESET_DELAY_MS }
           /\ prevAdvancedAt' = now
           /\ lastCall' = CallAt("loadPreviousContent", 0, 0, Some(getChunkContent(prevChunk)), "end")
           /\ UNCHANGED << fullContent, lastLoadedChunk, totalChunks,
                           currentContent, now, initialized, moreAdvancedAt >>

\* Mutant: a jump is skipped while a load is in flight or debounced.
jumpToChunk_throttled(targetChunkIndex) ==
  IF isLoadingMore \/ now - lastScrollEventTime < CHUNK_LOAD_DEBOUNCE_MS
  THEN /\ lastCall' = CallAt("jumpToChunk", targetChunkIndex, 0, Some(currentContent), "end")
       /\ UNCHANGED << fullContent, firstLoadedChunk, lastLoadedChunk, totalChunks,
                       isLoadingMore, lastScrollEventTime, currentContent, timers,
                       now, initialized, moreAdvancedAt, prevAdvancedAt >>
  ELSE LET newFirst   == Max(0, targetChunkIndex)
           newLast    == Min(targetChunkIndex + 2, totalChunks - 1)
           newContent == ConcatChunks(newFirst, newLast)
       IN  /\ firstLoadedChunk' = newFirst
           /\ lastLoadedChunk' = newLast
           /\ currentContent' = newContent
           /\ lastCall' = CallAt("jumpToChunk", targetChunkIndex, 0, Some(newContent), "end")
           /\ UNCHANGED << fullContent, totalChunks, isLoadingMore, lastScrollEventTime,
                           timers, now, initialized, moreAdvancedAt, prevAdvancedAt >>

\* Mutant: a jump loads a window of two chunks.
jumpToChunk_twoChunks(targetChunkIndex) ==
  LET newFirst   == Max(0, targetChunkIndex)
      newLast    == Min(targetChunkIndex + 1, totalChunks - 1)
      newContent == ConcatChunks(newFirst, newLast)
  IN  /\ firstLoadedChunk' = newFirst
      /\ lastLoadedChunk' = newLast
      /\ currentContent' = newContent
      /\ lastCall' = CallAt("jumpToChunk", targetChunkIndex, 0, Some(newContent), "end")
      /\ UNCHANGED << fullContent, totalChunks, isLoadingMore, lastScrollEventTime,
                      timers, now, initialized, moreAdvancedAt, prevAdvancedAt >>

jumpToChunk(targetChunkIndex) ==
  LET newFirst   == Max(0, targetChunkIndex)
      newLast    == Min(targetChunkIndex + 2, totalChunks - 1)
      newContent == ConcatChunks(newFirst, newLast)
  IN  /\ firstLoadedChunk' = newFirst
      /\ lastLoadedChunk' = newLast
      /\ currentContent' = newContent
      /\ lastCall' = CallAt("jumpToChunk", targetChunkIndex, 0, Some(newContent), "end")
      /\ UNCHANGED << fullContent, totalChunks, isLoadingMore, lastScrollEventTime,
                      timers, now, initialized, moreAdvancedAt, prevAdvancedAt >>

\* The callback of setTimeout(() => { isLoadingMoreRef.current = false }, 500)
\* runs once its delay has elapsed, not necessarily at once.
LoadingResetTimeout ==
  \E d \in timers :
    /\ now >= d
    /\ isLoadingMore' = FALSE
    /\ timers' = timers \ { d }
    /\ UNCHANGED << fullContent, firstLoadedChunk, lastLoadedChunk, totalChunks,
                    lastScrollEventTime, currentContent, now, initialized,
                    moreAdvancedAt, prevAdvancedAt, lastCall >>
    /\ HookFrame

\* Time passes.
Tick ==
  \E d \in TickSteps :
    /\ now + d <= Epoch + MaxElapsed
    /\ now' = now + d
    /\ UNCHANGED << fullContent, firstLoadedChunk, lastLoadedChunk, totalChunks,
                    isLoadingMore, lastScrollEventTime, currentContent, timers,
                    initialized, moreAdvancedAt, prevAdvancedAt, lastCall >>
    /\ HookFrame

\* ------------------------------------------------------------------------
\* splitMarkdownIntoChunks
\* ------------------------------------------------------------------------

\* markdown.split('\n')
RECURSIVE SplitLines(_)
SplitLines(s) ==
  IF \A k \in 1 .. Len(s) : s[k] # "\n" THEN << s >>
  ELSE LET k == CHOOSE j \in 1 .. Len(s) :
                  /\ s[j] = "\n"
                  /\ \A m \in 1 .. (j - 1) : s[m] # "\n"
       IN  << SubSeq(s, 1, k - 1) >> \o SplitLines(SubSeq(s, k + 1, Len(s)))

\* lines.join('\n')
RECURSIVE JoinLines(_)
JoinLines(lines) ==
  IF Len(lines) = 0 THEN << >>
  ELSE IF Len(lines) = 1 THEN lines[1]
  ELSE lines[1] \o << "\n" >> \o JoinLines(Tail(lines))

\* The characters \s matches that a line can hold.
Whitespace == { " ", "\t", "\r" }

\* Mutant: only level-1 headings count.
isHeading_levelOneOnly(line) ==
  Len(line) >= 2 /\ line[1] = "#" /\ line[2] \in Whitespace

\* /^#{1,2}\s+/.test(line)
isHeading(line) ==
  \/ Len(line) >= 2 /\ line[1] = "#" /\ line[2] \in Whitespace
  \/ Len(line) >= 3 /\ line[1] = "#" /\ line[2] = "#" /\ line[3] \in Whitespace

\* A MarkdownChunk
MarkdownChunk(content, startLine, endLine) ==
  [ content |-> content, startLine |-> startLine, endLine |-> endLine ]

\* The body of the loop over the lines, for line i (from 0).  The thresholds
\* TARGET_CHUNK_SIZE * 0.8 and TARGET_CHUNK_SIZE * 1.5 are compared in integers.
SplitStep(st, lines, i) ==
  LET line     == lines[i + 1]
      lineSize == Len(line) + 1
  IN  IF /\ isHeading(line)
         /\ 10 * st.currentSize > 8 * TARGET_CHUNK_SIZE
         /\ Len(st.currentChunk) > 0
      THEN [ chunks |-> Append(st.chunks,
                               MarkdownChunk(JoinLines(st.currentChunk), st.chunkStartLine, i)),
             currentChunk |-> << line >>,
             currentSize |-> lineSize,
             chunkStartLine |-> i ]
      ELSE LET grown == Append(st.currentChunk, line)
               size  == st.currentSize + lineSize
           IN  IF 2 * size > 3 * TARGET_CHUNK_SIZE
               THEN [ chunks |-> Append(st.chunks,
                                        MarkdownChunk(JoinLines(grown), st.chunkStartLine, i + 1)),
                      currentChunk |-> << >>,
                      currentSize |-> 0,
                      chunkStartLine |-> i + 1 ]
               ELSE [ chunks |-> st.chunks,
                      currentChunk |-> grown,
                      currentSize |-> size,
                      chunkStartLine |-> st.chunkStartLine ]

\* The loop's variables before its first iteration.
ScanStart == [ chunks |-> << >>, currentChunk |-> << >>,
               currentSize |-> 0, chunkStartLine |-> 0 ]

\* for (let i = 0; i < lines.length; i++) { ... }
RECURSIVE SplitLoop(_, _, _)
SplitLoop(st, lines, i) ==
  IF i >= Len(lines) THEN st
  ELSE SplitLoop(SplitStep(st, lines, i), lines, i + 1)

splitMarkdownIntoChunks(markdown) ==
  IF Len(markdown) = 0 THEN << MarkdownChunk(<< >>, 0, 0) >>
  ELSE IF Len(markdown) <= TARGET_CHUNK_SIZE
  THEN << MarkdownChunk(markdown, 0, Len(SplitLines(markdown))) >>
  ELSE LET lines  == SplitLines(markdown)
           st     == SplitLoop(ScanStart, lines, 0)
           chunks == IF Len(st.currentChunk) > 0
                     THEN Append(st.chunks,
                                 MarkdownChunk(JoinLines(st.currentChunk),
                                               st.chunkStartLine, Len(lines)))
                     ELSE st.chunks
       IN  IF Len(chunks) > 0 THEN chunks
           ELSE << MarkdownChunk(markdown, 0, Len(lines)) >>

\* ------------------------------------------------------------------------
\* The position store: saveReadingPosition, getReadingPosition,
\* getAllReadingPositions over AsyncStorage
\* ------------------------------------------------------------------------

\* The documents whose positions are stored.
DocumentIds == { "A", "B" }

\* The calls that can be in progress at a time.
CallIds == { "c1", "c2", "c3" }

\* An optional argument left out, a property an object does not have.
Undefined == 0 - 1

\* The (scrollOffset, chunkIndex) pairs passed to saveReadingPosition: with
\* and without the optional chunkIndex.
SaveArguments == { << 1, Undefined >>, << 2, 1 >> }

\* AsyncStorage.getItem resolves to null, to a string JSON.parse rejects, or
\* to the text JSON.stringify made of a positions object.
NoItem == [ kind |-> "null", value |-> << >> ]

Unparsable == [ kind |-> "unparsable", value |-> << >> ]

\* The outcome of an operation that returns a value or throws.
Returned(v) == [ threw |-> FALSE, value |-> v ]

Threw == [ threw |-> TRUE, value |-> << >> ]

\* The properties of a ReadingPosition
PositionFields == { "documentId", "scrollOffset", "chunkIndex", "timestamp" }

\* The properties of a ReadingPosition that may be undefined.
OptionalFields == { "chunkIndex" }

\* object[f] === undefined
IsUndefined(object, f) ==
  \/ f \notin DOMAIN object
  \/ f \in OptionalFields /\ object[f] = Undefined

\* object[f]
Field(object, f) == IF f \in DOMAIN object THEN object[f] ELSE Undefined

\* JSON.stringify of a positions object: a property whose value is
\* undefined is left out of the text.
JSONstringify(positions) ==
  [ kind  |-> "json",
    value |-> [ d \in DOMAIN positions |->
                  [ f \in { g \in DOMAIN positions[d] : ~ IsUndefined(positions[d], g) }
                      |-> positions[d][f] ] ] ]

\* JSON.parse
JSONparse(text) ==
  IF text.kind = "json" THEN Returned(text.value) ELSE Threw

\* AsyncStorage.getItem(POSITION_KEY): rejects when the store fails.
getItem(fails) == IF fails THEN Threw ELSE Returned(storage)

\* getAllReadingPositions: {} when nothing is stored, and {} from its catch
\* when getItem or JSON.parse throws.
getAllReadingPositions(fails) ==
  LET stored == getItem(fails)
  IN  IF stored.threw THEN Returned(<< >>)
      ELSE IF stored.value.kind = "null" THEN Returned(<< >>)
      ELSE LET parsed == JSONparse(stored.value)
           IN  IF parsed.threw THEN Returned(<< >>) ELSE parsed

\* Mutant: the properties of the document's earlier record are kept where
\* the new record has none.
SetPosition_merge(positions, documentId, record) ==
  [ d \in DOMAIN positions \cup { documentId } |->
      IF d # documentId THEN positions[d]
      ELSE IF d \notin DOMAIN positions THEN record
      ELSE [ f \in PositionFields |->
               IF ~ IsUndefined(record, f) THEN record[f] ELSE Field(positions[d], f) ] ]

\* positions[documentId] = record
SetPosition(positions, documentId, record) ==
  [ d \in DOMAIN positions \cup { documentId } |->
      IF d = documentId THEN record ELSE positions[d] ]

\* Mutant: what the try block throws leaves the function.
Settled_rethrow(threw) == IF threw THEN "rejected" ELSE "resolved"

\* try { ... } catch (error) { console.error(...) } in an async function:
\* its promise resolves whether or not the try block threw.
Settled(threw) == "resolved"

NoCallInProgress ==
  [ op |-> "none", pc |-> "idle", documentId |-> "A", scrollOffset |-> 0,
    chunkIndex |-> Undefined, positions |-> << >>, record |-> << >>,
    result |-> << >>, outcome |-> "none", failed |-> FALSE, alone |-> TRUE ]

\* No call of the position store has been made.
StoreIdle(items) ==
  /\ storage \in items
  /\ calls = [ c \in CallIds |-> NoCallInProgress ]
  /\ storeClock = 0
  /\ latest = [ d \in DocumentIds |-> << >> ]
  /\ cleanRun = TRUE

\* The call is between its first and its last step.
Pending(c) == calls[c].pc \in { "read", "write" }

\* No call is between its first and its last step.
NoCallPending == \A o \in CallIds : ~ Pending(o)

\* The record of call o once another call has begun: a call that is pending
\* then no longer runs alone (history, field `alone`, kept while the call is
\* pending).
Overlapped(o) ==
  IF Pending(o) THEN [ calls[o] EXCEPT !.alone = FALSE ] ELSE calls[o]

\* saveReadingPosition(documentId, scrollOffset, chunkIndex) is called: it
\* runs up to its await of getAllReadingPositions.
BeginSave(c, documentId, scrollOffset, chunkIndex) ==
  /\ ~ Pending(c)
  /\ calls' = [ o \in CallIds |->
                  IF o = c
                  THEN [ NoCallInProgress EXCEPT !.op = "save", !.pc = "read",
                                                 !.documentId = documentId,
                                                 !.scrollOffset = scrollOffset,
                                                 !.chunkIndex = chunkIndex,
                                                 !.outcome = "pending",
                                                 !.alone = NoCallPending ]
                  ELSE Overlapped(o) ]
  /\ storeClock' = storeClock + 1
  /\ cleanRun' = (cleanRun /\ \A o \in CallIds : ~ Pending(o))
  /\ UNCHANGED << storage, latest >>

\* getAllReadingPositions has settled: the record is put into positions and
\* AsyncStorage.setItem is called with the text of positions.
SaveRead(c, fails) ==
  /\ calls[c].op = "save"
  /\ calls[c].pc = "read"
  /\ LET positions == getAllReadingPositions(fails).value
         record    == [ documentId   |-> calls[c].documentId,
                        scrollOffset |-> calls[c].scrollOffset,
                        chunkIndex   |-> calls[c].chunkIndex,
                        timestamp    |-> storeClock ]
     IN  calls' = [ calls EXCEPT ![c].pc = "write",
                                 ![c].positions =
                                    SetPosition(positions, calls[c].documentId, record),
                                 ![c].record = record,
                                 ![c].failed = fails ]
  /\ cleanRun' = (cleanRun /\ ~ fails)
  /\ UNCHANGED << storage, storeClock, latest >>

\* AsyncStorage.setItem has settled: the text is stored, or the store failed
\* and the catch of saveReadingPosition logs the error.
SaveWrite(c, fails) ==
  /\ calls[c].op = "save"
  /\ calls[c].pc = "write"
  /\ storage' = IF fails THEN storage ELSE JSONstringify(calls[c].positions)
  /\ calls' = [ calls EXCEPT ![c].pc = "done",
                              ![c].outcome = Settled(fails),
                              ![c].failed = (calls[c].failed \/ fails),
                              ![c].alone = TRUE ]
  /\ latest' = IF fails THEN latest
                ELSE [ latest EXCEPT ![calls[c].documentId] = calls[c].record ]
  /\ cleanRun' = (cleanRun /\ ~ fails)
  /\ UNCHANGED storeClock

\* getReadingPosition(documentId) is called: it runs up to its await.
BeginGet(c, documentId) ==
  /\ ~ Pending(c)
  /\ calls' = [ o \in CallIds |->
                  IF o = c
                  THEN [ NoCallInProgress EXCEPT !.op = "get", !.pc = "read",
                                                 !.documentId = documentId,
                                                 !.outcome = "pending",
                                                 !.alone = NoCallPending ]
                  ELSE Overlapped(o) ]
  /\ storeClock' = storeClock + 1
  /\ cleanRun' = (cleanRun /\ \A o \in CallIds : ~ Pending(o))
  /\ UNCHANGED << storage, latest >>

\* getAllReadingPositions has settled: positions[documentId] || null
GetRead(c, fails) ==
  /\ calls[c].op = "get"
  /\ calls[c].pc = "read"
  /\ LET positions == getAllReadingPositions(fails).value
     IN  calls' = [ calls EXCEPT ![c].pc = "done",
                                 ![c].result =
                                    IF calls[c].documentId \in DOMAIN positions
                                    THEN positions[calls[c].documentId]
                                    ELSE << >>,
                                 ![c].outcome = Settled(FALSE),
                                 ![c].failed = fails,
                                 ![c].alone = TRUE ]
  /\ cleanRun' = (cleanRun /\ ~ fails)
  /\ UNCHANGED << storage, storeClock, latest >>

\* ------------------------------------------------------------------------
\* Restoring the reading position when a document is opened: loadDocument
\* and restoreScrollPosition of the heading-based restore
\* ------------------------------------------------------------------------

\* getReadingPosition resolved to null.
NoPosition == << >>

\* The records getReadingPosition can resolve to.  headingId k stands for the
\* id 'heading-k'.
SavedPositions ==
  { [ documentId |-> "A", scrollOffset |-> o, chunkIndex |-> c, headingId |-> h,
      timestamp |-> 1 ] :
      o \in { 0, SavedOffset },
      c \in { Undefined, 0, 1, CeilDiv(MaxDocLen, CHUNK_SIZE) - 1 + MaxOver },
      h \in { Undefined } \cup (0 .. MaxHeadings) }

\* getHeadingPositions(markdown) for a document of n characters: the offsets
\* of its headings in document order; the heading at place k has the id
\* 'heading-k'.
HeadingPositionsOf(n) ==
  { hs \in UNION { [ 1 .. m -> 0 .. (n - 1) ] : m \in 0 .. MaxHeadings } :
      \A j \in 1 .. (Len(hs) - 1) : hs[j] < hs[j + 1] }

\* positions.get('heading-k')
PositionOfHeading(positions, k) ==
  IF 0 <= k /\ k < Len(positions) THEN positions[k + 1] ELSE Undefined

\* Nothing has been scrolled.
NotScrolled == [ kind |-> "none", value |-> 0 ]

\* No document is being opened.
RestoreIdle(saved, headings) ==
  /\ savedPosition \in saved
  /\ headingPositions \in headings
  /\ headingToRestore = Undefined
  /\ scrollPositionToRestore = Undefined
  /\ savedChunkIndexRef = 0
  /\ restorePc = "idle"
  /\ scrolledTo = NotScrolled

\* loadDocument, from the settled getReadingPosition on.
loadDocument ==
  LET savedHeadingId == IF savedPosition = NoPosition THEN Undefined
                        ELSE savedPosition.headingId
  IN  IF savedHeadingId # Undefined
      THEN LET headingPos == PositionOfHeading(headingPositions, savedHeadingId)
           IN  /\ headingToRestore' = savedHeadingId
               /\ savedChunkIndexRef' =
                    IF headingPos # Undefined THEN headingPos \div CHUNK_SIZE
                    ELSE savedChunkIndexRef
               /\ UNCHANGED scrollPositionToRestore
      ELSE /\ scrollPositionToRestore' =
                IF savedPosition = NoPosition THEN 0 ELSE savedPosition.scrollOffset
           /\ savedChunkIndexRef' =
                IF savedPosition = NoPosition \/ savedPosition.chunkIndex = Undefined
                THEN 0 ELSE savedPosition.chunkIndex
           /\ UNCHANGED headingToRestore

\* scrollToHeading(headingId): document.getElementById finds the element of a
\* heading of the document and scrolls to it; for any other id nothing is
\* scrolled.
scrollToHeading(headingId) ==
  IF PositionOfHeading(headingPositions, headingId) # Undefined
  THEN [ kind |-> "heading", value |-> headingId ]
  ELSE scrolledTo

\* scrollToPosition(position)
scrollToPosition(position) == [ kind |-> "pixel", value |-> position ]

\* restoreScrollPosition: the callback of its setTimeout.
restoreScrollPosition ==
  IF headingToRestore # Undefined
  THEN /\ scrolledTo' = scrollToHeading(headingToRestore)
       /\ headingToRestore' = Undefined
       /\ UNCHANGED scrollPositionToRestore
  ELSE IF scrollPositionToRestore # Undefined
  THEN /\ scrolledTo' = scrollToPosition(scrollPositionToRestore)
       /\ UNCHANGED << headingToRestore, scrollPositionToRestore >>
  ELSE UNCHANGED << scrolledTo, headingToRestore, scrollPositionToRestore >>

\* ------------------------------------------------------------------------
\* Closing a document: handleBack, the auto-save interval and the unmount
\* save of MarkdownReader, getScrollPosition of WebViewMarkdownReader
\* ------------------------------------------------------------------------

\* The callers of getScrollPosition: the Close button's onPress, the
\* callback of the auto-save interval, the cleanup run on unmount.
Savers == { "close", "auto", "unmount" }

\* The call of saveReadingPosition each of them makes.
SaveCallOf(saver) ==
  IF saver = "close" THEN "c1" ELSE IF saver = "auto" THEN "c2" ELSE "c3"

\* The document that is open.
OpenDocument == "A"

\* The ref holds no resolve function.
NoSaver == "none"

\* The reader shows a document: the WebView is loaded, the interval runs,
\* nobody has asked for the scroll position.
CloseIdle ==
  /\ closePc = "open"
  /\ autoPc = "idle"
  /\ unmountPc = "idle"
  /\ mounted = TRUE
  /\ webViewReady = TRUE
  /\ scrollY = 0
  /\ scrollPositionResolverRef = NoSaver
  /\ scrollResult = [ s \in Savers |-> Undefined ]
  /\ fallbacks = {}
  /\ replies = 0
  /\ ticks = 0
  /\ rebuilds = 0

\* getScrollPosition() called by saver: the promise resolves to 0 at once
\* when the WebView is not ready; otherwise its resolve function replaces
\* the one in scrollPositionResolverRef, the script that posts the position
\* is injected and the 2000 ms timeout is started.
getScrollPosition(saver) ==
  IF ~ webViewReady
  THEN /\ scrollResult' = [ scrollResult EXCEPT ![saver] = 0 ]
       /\ fallbacks' = fallbacks \cup { saver }
       /\ UNCHANGED << scrollPositionResolverRef, replies >>
  ELSE /\ scrollResult' = [ scrollResult EXCEPT ![saver] = Undefined ]
       /\ fallbacks' = fallbacks \ { saver }
       /\ scrollPositionResolverRef' = saver
       /\ replies' = replies + 1

\* handleMessage for a message of type 'scrollPosition': the resolve function
\* held in scrollPositionResolverRef, if any, is called with the position and
\* the ref is cleared.
handleScrollPositionMessage(position) ==
  /\ replies > 0
  /\ replies' = replies - 1
  /\ IF scrollPositionResolverRef # NoSaver
     THEN /\ scrollResult' = [ scrollResult EXCEPT ![scrollPositionResolverRef] = position ]
          /\ UNCHANGED fallbacks
          /\ scrollPositionResolverRef' = NoSaver
     ELSE UNCHANGED << scrollResult, fallbacks, scrollPositionResolverRef >>

\* The 2000 ms timeout of a getScrollPosition call: it resolves the promise
\* to 0 and clears the ref if the ref still holds its resolve function, and
\* does nothing otherwise, so only the timeout of the call whose resolve
\* function is in the ref is modelled.
scrollPositionTimeout ==
  /\ scrollPositionResolverRef # NoSaver
  /\ scrollResult' = [ scrollResult EXCEPT ![scrollPositionResolverRef] = 0 ]
  /\ fallbacks' = fallbacks \cup { scrollPositionResolverRef }
  /\ scrollPositionResolverRef' = NoSaver
  /\ UNCHANGED replies

\* Mutant: saveReadingPosition is called without await.
CloseSavePc_notAwaited == "back"

\* Where the Close handler is after calling saveReadingPosition: awaiting it.
CloseSavePc == "save"

\* ------------------------------------------------------------------------
\* The page in the WebView: createHtmlFile, appendContent, prependContent
\* and replaceContent of WebViewMarkdownReader, and the append-only
\* loadDocument and loadMoreContent of MarkdownReader
\* ------------------------------------------------------------------------

\* The offset in the document of one of its characters; the characters of a
\* document are distinct.
OffsetOf(ch) == (CHOOSE i \in 1 .. Len(Alphabet) : Alphabet[i] = ch) - 1

\* marked.parse renders a heading element where the document has a heading.
IsHeadingChar(ch) ==
  \E k \in 1 .. Len(headingPositions) : headingPositions[k] = OffsetOf(ch)

\* querySelectorAll('h1, h2, h3, h4, h5, h6').length in the rendering of markdown
HeadingCount(markdown) ==
  Cardinality({ i \in 1 .. Len(markdown) : IsHeadingChar(markdown[i]) })

\* The ids 'heading-' + (start + idx) given to n headings in DOM order.
NumberFrom(start, n) == [ idx \in 1 .. n |-> start + idx - 1 ]

\* No document is shown.
SurfaceIdle ==
  /\ markdownProp = << >>
  /\ surface = << >>
  /\ headingIds = << >>
  /\ webViewReadyRef = FALSE
  /\ currentLoadedEndRef = 0
  /\ surfacePc = "idle"
  /\ fontChanges = 0

\* createHtmlFile, run by the effect on [markdown, fontSize, theme]: the
\* WebView is not ready until the page of the new file has loaded.
createHtmlFile ==
  /\ webViewReadyRef' = FALSE
  /\ UNCHANGED << surface, headingIds >>

\* The page written by createHtmlFile has loaded: it renders the markdown
\* prop, numbers its headings from 0 and posts 'loaded'.
pageLoaded ==
  /\ surface' = markdownProp
  /\ headingIds' = NumberFrom(0, HeadingCount(markdownProp))
  /\ webViewReadyRef' = TRUE

\* appendContent(additionalMarkdown)
appendContent(additionalMarkdown) ==
  IF ~ webViewReadyRef THEN UNCHANGED << surface, headingIds >>
  ELSE /\ surface' = surface \o additionalMarkdown
       /\ headingIds' = headingIds
                          \o NumberFrom(Len(headingIds), HeadingCount(additionalMarkdown))

\* prependContent(additionalMarkdown)
prependContent(additionalMarkdown) ==
  IF ~ webViewReadyRef THEN UNCHANGED << surface, headingIds >>
  ELSE /\ surface' = additionalMarkdown \o surface
       /\ headingIds' = NumberFrom(0, HeadingCount(additionalMarkdown) + Len(headingIds))

\* replaceContent(newMarkdown, startHeadingIndex)
replaceContent(newMarkdown, startHeadingIndex) ==
  IF ~ webViewReadyRef THEN UNCHANGED << surface, headingIds >>
  ELSE /\ surface' = newMarkdown
       /\ headingIds' = NumberFrom(startHeadingIndex, HeadingCount(newMarkdown))

\* loadDocument of the append-only MarkdownReader: the first CHUNK_SIZE
\* characters become the markdown prop of the WebView.
readerLoadDocument ==
  LET initialEnd == Min(CHUNK_SIZE, Len(fullContent))
  IN  /\ isLoadingMore' = FALSE
      /\ markdownProp' = Substring(fullContent, 0, initialEnd)
      /\ currentLoadedEndRef' = initialEnd
      /\ createHtmlFile

\* loadMoreContent of the append-only MarkdownReader
readerLoadMoreContent ==
  LET currentEnd == currentLoadedEndRef
      nextEnd    == Min(currentEnd + CHUNK_SIZE, Len(fullContent))
      nextChunk  == Substring(fullContent, currentEnd, nextEnd)
  IN  IF \/ isLoadingMore
         \/ currentEnd >= Len(fullContent)
         \/ now - lastScrollEventTime < READER_DEBOUNCE_MS
      THEN UNCHANGED << isLoadingMore, lastScrollEventTime, timers, surface,
                        headingIds, currentLoadedEndRef >>
      ELSE /\ lastScrollEventTime' = now
           /\ isLoadingMore' = TRUE
           /\ appendContent(nextChunk)
           /\ currentLoadedEndRef' = nextEnd
           /\ timers' = timers \cup { now + LOADING_RESET_DELAY_MS }

\* ------------------------------------------------------------------------
\* The callers of the hook
\* ------------------------------------------------------------------------

\* Chunk indices a caller may pass: in range and out of range on both sides.
ChunkArgs == (0 - MaxOver) .. (CeilDiv(MaxDocLen, CHUNK_SIZE) - 1 + MaxOver)

NoCall == [ op |-> "none", arg |-> 0, num |-> 0, ret |-> Null, exit |-> "none",
            after |-> << >> ]

\* The hook as mounted with one of the documents docs.
HookInit(docs) ==
  /\ fullContent \in docs
  /\ firstLoadedChunk = 0
  /\ lastLoadedChunk = 0
  /\ totalChunks = 0
  /\ isLoadingMore = FALSE
  /\ lastScrollEventTime = 0
  /\ currentContent = << >>
  /\ timers = {}
  /\ now = Epoch
  /\ initialized = FALSE
  /\ moreAdvancedAt = 0 - 1
  /\ prevAdvancedAt = 0 - 1
  /\ lastCall = NoCall

\* splitMarkdownIntoChunks has not been called.
SplitIdle(docs) ==
  /\ markdownArg \in docs
  /\ splitPc = "idle"
  /\ lineIndex = 0
  /\ scan = ScanStart
  /\ splitResult = << >>

Init ==
  /\ HookInit(Documents)
  /\ query = NoQuery
  /\ SplitIdle({ << >> })
  /\ StoreIdle({ NoItem })
  /\ RestoreIdle({ NoPosition }, { << >> })
  /\ CloseIdle
  /\ SurfaceIdle

LoadInitial ==
  /\ \E s \in ChunkArgs, n \in 1 .. MaxNumChunks : loadInitialChunks(s, n)
  /\ HookFrame

LoadMore == loadMoreContent /\ HookFrame

LoadPrevious == loadPreviousContent /\ HookFrame

\* jumpToChunk with any index
Jump ==
  /\ \E t \in ChunkArgs : jumpToChunk(t)
  /\ HookFrame

\* jumpToChunk with the index of a chunk of the document
JumpInRange ==
  /\ \E t \in 0 .. (totalChunks - 1) : jumpToChunk(t)
  /\ HookFrame

Next ==
  \/ LoadInitial
  \/ LoadMore
  \/ LoadPrevious
  \/ Jump
  \/ LoadingResetTimeout
  \/ Tick

Spec == Init /\ [][Next]_vars

NextInRange ==
  \/ LoadInitial
  \/ LoadMore
  \/ LoadPrevious
  \/ JumpInRange
  \/ LoadingResetTimeout
  \/ Tick

\* The hook driven by a caller that only jumps to chunks of the document.
SpecInRange == Init /\ [][NextInRange]_vars

\* Time passes until a cooldown timer is due.
CooldownElapses ==
  \E d \in timers :
    /\ now < d
    /\ now' = d
    /\ UNCHANGED << fullContent, firstLoadedChunk, lastLoadedChunk, totalChunks,
                    isLoadingMore, lastScrollEventTime, currentContent, timers,
                    initialized, moreAdvancedAt, prevAdvancedAt, lastCall >>
    /\ HookFrame

InitCooldown ==
  /\ HookInit({ SubSeq(Alphabet, 1, MaxDocLen) })
  /\ query = NoQuery
  /\ SplitIdle({ << >> })
  /\ StoreIdle({ NoItem })
  /\ RestoreIdle({ NoPosition }, { << >> })
  /\ CloseIdle
  /\ SurfaceIdle

NextCooldown ==
  \/ LoadInitial
  \/ LoadMore
  \/ LoadPrevious
  \/ JumpInRange
  \/ LoadingResetTimeout
  \/ Tick
  \/ CooldownElapses

\* The hook with a clock that goes on and an event loop that runs the
\* callback of a setTimeout once it is due; the callers may call at any
\* time, or never.
SpecCooldown ==
  /\ InitCooldown
  /\ [][NextCooldown]_vars
  /\ WF_vars(CooldownElapses)
  /\ WF_vars(LoadingResetTimeout)

\* ------------------------------------------------------------------------
\* The chunk table: getTotalChunks, getChunkContent, getChunkForPosition
\* applied to documents of every length
\* ------------------------------------------------------------------------

AllDocuments == { SubSeq(Alphabet, 1, n) : n \in 0 .. MaxDocLen }

\* Character positions a caller may pass: every offset of the document, its
\* length, and positions out of range on both sides.
Positions == (0 - MaxOver) .. (MaxDocLen + CHUNK_SIZE)

InitTable ==
  /\ HookInit(AllDocuments)
  /\ query = NoQuery
  /\ SplitIdle({ << >> })
  /\ StoreIdle({ NoItem })
  /\ RestoreIdle({ NoPosition }, { << >> })
  /\ CloseIdle
  /\ SurfaceIdle

GetTotalChunks ==
  /\ query' = [ fn |-> "getTotalChunks", arg |-> 0, ret |-> getTotalChunks ]
  /\ TableFrame

GetChunkContent ==
  /\ \E i \in ChunkArgs :
       query' = [ fn |-> "getChunkContent", arg |-> i, ret |-> getChunkContent(i) ]
  /\ TableFrame

GetChunkForPosition ==
  /\ \E p \in Positions :
       query' = [ fn |-> "getChunkForPosition", arg |-> p,
                  ret |-> getChunkForPosition(p) ]
  /\ TableFrame

NextTable ==
  \/ GetTotalChunks
  \/ GetChunkContent
  \/ GetChunkForPosition

SpecTable == InitTable /\ [][NextTable]_vars

\* ------------------------------------------------------------------------
\* splitMarkdownIntoChunks applied to markdown documents, one iteration of
\* its loop at a time
\* ------------------------------------------------------------------------

\* The string of n characters c.
Repeat(c, n) == [ k \in 1 .. n |-> c ]

\* The length of the shortest line whose size (length + 1) exceeds
\* TARGET_CHUNK_SIZE * 0.8.
BodyLineLen == (8 * TARGET_CHUNK_SIZE) \div 10

\* The length of the shortest line whose size exceeds TARGET_CHUNK_SIZE * 1.5.
LongLineLen == (3 * TARGET_CHUNK_SIZE) \div 2

\* The lines the documents are made of: a short line, a level-2 heading, a
\* line that takes a chunk past 0.8 x target, a line and a level-1 heading
\* that each take a chunk past 1.5 x target.
MarkdownLines ==
  { << "z" >>,
    << "#", "#", " ", "h" >>,
    Repeat("x", BodyLineLen),
    Repeat("y", LongLineLen),
    << "#", " " >> \o Repeat("t", LongLineLen - 2) }

\* The markdown documents: up to MaxLines lines joined by newlines, and the
\* empty document.
MarkdownDocuments ==
  { JoinLines(ls) : ls \in UNION { [ 1 .. n -> MarkdownLines ] : n \in 0 .. MaxLines } }

InitSplit ==
  /\ HookInit({ << >> })
  /\ query = NoQuery
  /\ SplitIdle(MarkdownDocuments)
  /\ StoreIdle({ NoItem })
  /\ RestoreIdle({ NoPosition }, { << >> })
  /\ CloseIdle
  /\ SurfaceIdle

\* The call, up to the loop: the two early returns, or the loop's variables.
SplitBegin ==
  /\ splitPc = "idle"
  /\ IF Len(markdownArg) = 0
     THEN /\ splitResult' = << MarkdownChunk(<< >>, 0, 0) >>
          /\ splitPc' = "done"
     ELSE IF Len(markdownArg) <= TARGET_CHUNK_SIZE
     THEN /\ splitResult' = << MarkdownChunk(markdownArg, 0,
                                              Len(SplitLines(markdownArg))) >>
          /\ splitPc' = "done"
     ELSE /\ splitPc' = "scan"
          /\ UNCHANGED splitResult
  /\ UNCHANGED << markdownArg, lineIndex, scan >>
  /\ SplitFrame

\* One iteration of the loop.
SplitLine ==
  /\ splitPc = "scan"
  /\ lineIndex < Len(SplitLines(markdownArg))
  /\ scan' = SplitStep(scan, SplitLines(markdownArg), lineIndex)
  /\ lineIndex' = lineIndex + 1
  /\ UNCHANGED << markdownArg, splitPc, splitResult >>
  /\ SplitFrame

\* After the loop: the remaining lines are the last chunk.
SplitEnd ==
  /\ splitPc = "scan"
  /\ lineIndex >= Len(SplitLines(markdownArg))
  /\ LET lines  == SplitLines(markdownArg)
         chunks == IF Len(scan.currentChunk) > 0
                   THEN Append(scan.chunks,
                               MarkdownChunk(JoinLines(scan.currentChunk),
                                             scan.chunkStartLine, Len(lines)))
                   ELSE scan.chunks
     IN  splitResult' = IF Len(chunks) > 0 THEN chunks
                        ELSE << MarkdownChunk(markdownArg, 0, Len(lines)) >>
  /\ splitPc' = "done"
  /\ UNCHANGED << markdownArg, lineIndex, scan >>
  /\ SplitFrame

NextSplit ==
  \/ SplitBegin
  \/ SplitLine
  \/ SplitEnd

SpecSplit == InitSplit /\ [][NextSplit]_vars

\* ------------------------------------------------------------------------
\* The position store under callers that save and get positions
\* ------------------------------------------------------------------------

\* The calls the callers make: up to two at a time.
StoreCallers == { "c1", "c2" }

InitStore ==
  /\ HookInit({ << >> })
  /\ query = NoQuery
  /\ SplitIdle({ << >> })
  /\ StoreIdle({ NoItem, Unparsable })
  /\ RestoreIdle({ NoPosition }, { << >> })
  /\ CloseIdle
  /\ SurfaceIdle

StartSave ==
  /\ storeClock < MaxCalls
  /\ \E c \in StoreCallers, d \in DocumentIds, a \in SaveArguments :
       BeginSave(c, d, a[1], a[2])
  /\ StoreFrame

StartGet ==
  /\ storeClock < MaxCalls
  /\ \E c \in StoreCallers, d \in DocumentIds : BeginGet(c, d)
  /\ StoreFrame

SaveReads ==
  /\ \E c \in StoreCallers, fails \in BOOLEAN : SaveRead(c, fails)
  /\ StoreFrame

SaveWrites ==
  /\ \E c \in StoreCallers, fails \in BOOLEAN : SaveWrite(c, fails)
  /\ StoreFrame

GetReads ==
  /\ \E c \in StoreCallers, fails \in BOOLEAN : GetRead(c, fails)
  /\ StoreFrame

NextStore ==
  \/ StartSave
  \/ StartGet
  \/ SaveReads
  \/ SaveWrites
  \/ GetReads

SpecStore == InitStore /\ [][NextStore]_vars

\* ------------------------------------------------------------------------
\* Opening a document with a saved position
\* ------------------------------------------------------------------------

InitRestore ==
  /\ HookInit(Documents)
  /\ query = NoQuery
  /\ SplitIdle({ << >> })
  /\ StoreIdle({ NoItem })
  /\ RestoreIdle({ NoPosition } \cup SavedPositions,
                 HeadingPositionsOf(Len(fullContent)))
  /\ CloseIdle
  /\ SurfaceIdle

LoadDocument ==
  /\ restorePc = "idle"
  /\ loadDocument
  /\ restorePc' = "loaded"
  /\ UNCHANGED << savedPosition, headingPositions, scrolledTo >>
  /\ UNCHANGED << hookVars, tableVars, splitVars, storeVars, closeVars, surfaceVars >>

\* The effect that loads the first chunks once the markdown is there:
\* if (fullMarkdown && fullMarkdown.length > 0 && !isReady)
\*   loadInitialChunks(savedChunkIndexRef.current, 3)
LoadSavedChunks ==
  /\ restorePc = "loaded"
  /\ Len(fullContent) > 0
  /\ loadInitialChunks(savedChunkIndexRef, INITIAL_CHUNK_COUNT)
  /\ restorePc' = "ready"
  /\ UNCHANGED << savedPosition, headingPositions, headingToRestore,
                  scrollPositionToRestore, savedChunkIndexRef, scrolledTo >>
  /\ UNCHANGED << tableVars, splitVars, storeVars, closeVars, surfaceVars >>

RestoreScrollPosition ==
  /\ restorePc = "ready"
  /\ restoreScrollPosition
  /\ restorePc' = "restored"
  /\ UNCHANGED << savedPosition, headingPositions, savedChunkIndexRef >>
  /\ UNCHANGED << hookVars, tableVars, splitVars, storeVars, closeVars, surfaceVars >>

NextRestore ==
  \/ LoadDocument
  \/ LoadSavedChunks
  \/ RestoreScrollPosition

SpecRestore == InitRestore /\ [][NextRestore]_vars

\* ------------------------------------------------------------------------
\* The reader with a document open, up to its close and unmount
\* ------------------------------------------------------------------------

\* A position saved in an earlier session.
StoredPosition ==
  JSONstringify(SetPosition(<< >>, OpenDocument,
                            [ documentId |-> OpenDocument, scrollOffset |-> SavedOffset,
                              chunkIndex |-> Undefined, timestamp |-> 0 ]))

InitClose ==
  /\ HookInit({ << >> })
  /\ query = NoQuery
  /\ SplitIdle({ << >> })
  /\ StoreIdle({ NoItem, StoredPosition })
  /\ RestoreIdle({ NoPosition }, { << >> })
  /\ CloseIdle
  /\ SurfaceIdle

\* What the reader's close, auto-save and unmount leave alone.
CloseFrame == UNCHANGED << hookVars, tableVars, splitVars, restoreVars, surfaceVars >>

\* The user presses Close in the dialog: onPress runs up to its await of
\* getScrollPosition.
ConfirmClose ==
  /\ closePc = "open"
  /\ mounted
  /\ getScrollPosition("close")
  /\ closePc' = "scroll"
  /\ UNCHANGED << autoPc, unmountPc, mounted, webViewReady, scrollY, ticks, rebuilds >>
  /\ UNCHANGED storeVars
  /\ CloseFrame

\* getScrollPosition has resolved in onPress:
\* if (scrollPosition !== undefined && scrollPosition >= 0) await saveReadingPosition(...)
CloseGotPosition ==
  /\ closePc = "scroll"
  /\ scrollResult["close"] # Undefined
  /\ IF scrollResult["close"] >= 0
     THEN /\ BeginSave(SaveCallOf("close"), OpenDocument, scrollResult["close"], Undefined)
          /\ closePc' = CloseSavePc
     ELSE /\ closePc' = "back"
          /\ UNCHANGED storeVars
  /\ UNCHANGED << autoPc, unmountPc, mounted, webViewReady, scrollY,
                  scrollPositionResolverRef, scrollResult,
                  fallbacks, replies, ticks, rebuilds >>
  /\ CloseFrame

\* onBack(), after the try block of onPress.
OnBack ==
  /\ \/ closePc = "back"
     \/ closePc = "save" /\ ~ Pending(SaveCallOf("close"))
  /\ closePc' = "closed"
  /\ UNCHANGED << autoPc, unmountPc, mounted, webViewReady, scrollY,
                  scrollPositionResolverRef, scrollResult,
                  fallbacks, replies, ticks, rebuilds >>
  /\ UNCHANGED storeVars
  /\ CloseFrame

\* The interval fires: its callback runs up to its await of
\* getScrollPosition.  The callback of the previous tick has finished, or
\* awaits a promise whose resolve function is no longer in the ref.
AutoSaveTick ==
  /\ mounted
  /\ ticks < MaxTicks
  /\ \/ autoPc = "idle"
     \/ autoPc = "save" /\ ~ Pending(SaveCallOf("auto"))
     \/ /\ autoPc = "scroll"
        /\ scrollResult["auto"] = Undefined
        /\ scrollPositionResolverRef # "auto"
  /\ getScrollPosition("auto")
  /\ autoPc' = "scroll"
  /\ ticks' = ticks + 1
  /\ UNCHANGED << closePc, unmountPc, mounted, webViewReady, scrollY, rebuilds >>
  /\ UNCHANGED storeVars
  /\ CloseFrame

\* getScrollPosition has resolved in the interval's callback:
\* if (scrollPosition !== undefined) await saveReadingPosition(...)
AutoGotPosition ==
  /\ autoPc = "scroll"
  /\ scrollResult["auto"] # Undefined
  /\ BeginSave(SaveCallOf("auto"), OpenDocument, scrollResult["auto"], Undefined)
  /\ autoPc' = "save"
  /\ UNCHANGED << closePc, unmountPc, mounted, webViewReady, scrollY,
                  scrollPositionResolverRef, scrollResult,
                  fallbacks, replies, ticks, rebuilds >>
  /\ CloseFrame

\* The parent has handled onBack and the reader is unmounted: the interval
\* is cleared, and the cleanup of the mount effect asks for the scroll
\* position through currentWebViewRef.current?.getScrollPosition().  Whether
\* the ref is still attached when the cleanup runs depends on the React
\* version: with a detached ref the cleanup saves nothing.
Unmount ==
  /\ closePc = "closed"
  /\ mounted
  /\ mounted' = FALSE
  /\ \/ /\ getScrollPosition("unmount")
        /\ unmountPc' = "scroll"
     \/ /\ unmountPc' = "done"
        /\ UNCHANGED << scrollPositionResolverRef, scrollResult, fallbacks, replies >>
  /\ UNCHANGED << closePc, autoPc, webViewReady, scrollY, ticks, rebuilds >>
  /\ UNCHANGED storeVars
  /\ CloseFrame

\* getScrollPosition has resolved in the unmount cleanup:
\* if (scrollPosition !== undefined && scrollPosition > 0) await saveReadingPosition(...)
UnmountGotPosition ==
  /\ unmountPc = "scroll"
  /\ scrollResult["unmount"] # Undefined
  /\ IF scrollResult["unmount"] > 0
     THEN /\ BeginSave(SaveCallOf("unmount"), OpenDocument, scrollResult["unmount"],
                       Undefined)
          /\ unmountPc' = "save"
     ELSE /\ unmountPc' = "done"
          /\ UNCHANGED storeVars
  /\ UNCHANGED << closePc, autoPc, mounted, webViewReady, scrollY,
                  scrollPositionResolverRef, scrollResult,
                  fallbacks, replies, ticks, rebuilds >>
  /\ CloseFrame

\* The injected script runs and its message reaches handleMessage.
WebViewReply ==
  /\ handleScrollPositionMessage(scrollY)
  /\ UNCHANGED << closePc, autoPc, unmountPc, mounted, webViewReady, scrollY,
                  ticks, rebuilds >>
  /\ UNCHANGED storeVars
  /\ CloseFrame

\* A 2000 ms timeout of getScrollPosition fires.
ScrollTimeout ==
  /\ scrollPositionTimeout
  /\ UNCHANGED << closePc, autoPc, unmountPc, mounted, webViewReady, scrollY,
                  ticks, rebuilds >>
  /\ UNCHANGED storeVars
  /\ CloseFrame

\* The user scrolls.
UserScroll ==
  /\ mounted
  /\ webViewReady
  /\ \E y \in 0 .. MaxScroll : y # scrollY /\ scrollY' = y
  /\ UNCHANGED << closePc, autoPc, unmountPc, mounted, webViewReady,
                  scrollPositionResolverRef, scrollResult,
                  fallbacks, replies, ticks, rebuilds >>
  /\ UNCHANGED storeVars
  /\ CloseFrame

\* The font size or theme changes: createHtmlFile sets webViewReady to false
\* and the WebView loads the new file; scripts injected into the old page
\* are gone.
RebuildWebView ==
  /\ mounted
  /\ webViewReady
  /\ rebuilds < MaxRebuilds
  /\ webViewReady' = FALSE
  /\ replies' = 0
  /\ rebuilds' = rebuilds + 1
  /\ UNCHANGED << closePc, autoPc, unmountPc, mounted, scrollY,
                  scrollPositionResolverRef, scrollResult, fallbacks, ticks >>
  /\ UNCHANGED storeVars
  /\ CloseFrame

\* The rebuilt page reports 'loaded'.
WebViewReady ==
  /\ mounted
  /\ ~ webViewReady
  /\ webViewReady' = TRUE
  /\ UNCHANGED << closePc, autoPc, unmountPc, mounted, scrollY,
                  scrollPositionResolverRef, scrollResult,
                  fallbacks, replies, ticks, rebuilds >>
  /\ UNCHANGED storeVars
  /\ CloseFrame

\* A storage read of one of the saves settles.
StorageRead ==
  /\ \E c \in CallIds, fails \in BOOLEAN : SaveRead(c, fails)
  /\ UNCHANGED closeVars
  /\ CloseFrame

\* A storage write of one of the saves settles.
StorageWrite ==
  /\ \E c \in CallIds, fails \in BOOLEAN : SaveWrite(c, fails)
  /\ UNCHANGED closeVars
  /\ CloseFrame

NextClose ==
  \/ ConfirmClose
  \/ CloseGotPosition
  \/ OnBack
  \/ AutoSaveTick
  \/ AutoGotPosition
  \/ Unmount
  \/ UnmountGotPosition
  \/ WebViewReply
  \/ ScrollTimeout
  \/ UserScroll
  \/ RebuildWebView
  \/ WebViewReady
  \/ StorageRead
  \/ StorageWrite

SpecClose == InitClose /\ [][NextClose]_vars

\* The reader with a WebView that runs every injected script and posts its
\* message, timers that fire, a storage whose operations settle, and
\* handlers that go on once the promise they await has resolved.
SpecCloseFair ==
  /\ InitClose
  /\ [][NextClose]_vars
  /\ WF_vars(WebViewReply)
  /\ WF_vars(ScrollTimeout)
  /\ WF_vars(StorageRead)
  /\ WF_vars(StorageWrite)
  /\ WF_vars(CloseGotPosition)
  /\ WF_vars(OnBack)

\* ------------------------------------------------------------------------
\* The reader that shows the hook's window in the WebView
\* ------------------------------------------------------------------------

\* Where the headings of the document are: two layouts of two headings,
\* in different chunks.
HeadingLayouts == { << 1, CHUNK_SIZE + 1 >>, << 0, MaxDocLen - 1 >> }

\* The number of headings of the document before offset position.
HeadingsBefore(position) ==
  Cardinality({ k \in 1 .. Len(headingPositions) : headingPositions[k] < position })

InitHeadings ==
  /\ HookInit({ SubSeq(Alphabet, 1, MaxDocLen) })
  /\ query = NoQuery
  /\ SplitIdle({ << >> })
  /\ StoreIdle({ NoItem })
  /\ RestoreIdle({ NoPosition }, HeadingLayouts)
  /\ CloseIdle
  /\ SurfaceIdle

\* What the reader and its WebView leave alone.
SurfaceFrame ==
  UNCHANGED << tableVars, splitVars, storeVars, restoreVars, closeVars >>

\* The document is opened at a chunk: the content of loadInitialChunks is
\* the markdown prop of the WebView, whose effect runs createHtmlFile.
OpenWindow ==
  /\ surfacePc = "idle"
  /\ \E s \in 0 .. (getTotalChunks - 1) : loadInitialChunks(s, INITIAL_CHUNK_COUNT)
  /\ markdownProp' = currentContent'
  /\ createHtmlFile
  /\ surfacePc' = "opened"
  /\ UNCHANGED << currentLoadedEndRef, fontChanges >>
  /\ SurfaceFrame

\* The page posts 'loaded'.
PageLoaded ==
  /\ surfacePc = "opened"
  /\ ~ webViewReadyRef
  /\ pageLoaded
  /\ UNCHANGED << markdownProp, currentLoadedEndRef, surfacePc, fontChanges >>
  /\ UNCHANGED hookVars
  /\ SurfaceFrame

\* handleScrollNearEnd: the chunk loadMoreContent returns is appended.
ScrollNearEnd ==
  /\ surfacePc = "opened"
  /\ loadMoreContent
  /\ IF lastCall'.ret # Null
     THEN appendContent(lastCall'.ret[1])
     ELSE UNCHANGED << surface, headingIds >>
  /\ UNCHANGED << markdownProp, webViewReadyRef, currentLoadedEndRef, surfacePc,
                  fontChanges >>
  /\ SurfaceFrame

\* handleScrollNearStart: the chunk loadPreviousContent returns is prepended.
ScrollNearStart ==
  /\ surfacePc = "opened"
  /\ loadPreviousContent
  /\ IF lastCall'.ret # Null
     THEN prependContent(lastCall'.ret[1])
     ELSE UNCHANGED << surface, headingIds >>
  /\ UNCHANGED << markdownProp, webViewReadyRef, currentLoadedEndRef, surfacePc,
                  fontChanges >>
  /\ SurfaceFrame

\* handleTocItemPress: the content jumpToChunk returns replaces the page's,
\* with the number of headings before the window as startHeadingIndex.
TocItemPress ==
  /\ surfacePc = "opened"
  /\ \E t \in 0 .. (totalChunks - 1) :
       /\ jumpToChunk(t)
       /\ replaceContent(lastCall'.ret[1], HeadingsBefore(t * CHUNK_SIZE))
  /\ UNCHANGED << markdownProp, webViewReadyRef, currentLoadedEndRef, surfacePc,
                  fontChanges >>
  /\ SurfaceFrame

\* The font size is changed: the effect on [markdown, fontSize, theme] runs
\* createHtmlFile again.
ChangeFontSize ==
  /\ surfacePc = "opened"
  /\ fontChanges < MaxFontChanges
  /\ fontChanges' = fontChanges + 1
  /\ createHtmlFile
  /\ UNCHANGED << markdownProp, currentLoadedEndRef, surfacePc >>
  /\ UNCHANGED hookVars
  /\ SurfaceFrame

NextHeadings ==
  \/ OpenWindow
  \/ PageLoaded
  \/ ScrollNearEnd
  \/ ScrollNearStart
  \/ TocItemPress
  \/ ChangeFontSize
  \/ LoadingResetTimeout
  \/ Tick

SpecHeadings == InitHeadings /\ [][NextHeadings]_vars

\* ------------------------------------------------------------------------
\* The append-only reader
\* ------------------------------------------------------------------------

InitAppend ==
  /\ HookInit(Documents)
  /\ query = NoQuery
  /\ SplitIdle({ << >> })
  /\ StoreIdle({ NoItem })
  /\ RestoreIdle({ NoPosition }, { << >> })
  /\ CloseIdle
  /\ SurfaceIdle

\* What the append-only reader leaves of the state it shares with the hook.
ReaderFrame ==
  UNCHANGED << fullContent, firstLoadedChunk, lastLoadedChunk, totalChunks,
               currentContent, now, initialized, moreAdvancedAt, prevAdvancedAt,
               lastCall >>

\* The mount effect runs loadDocument.
ReaderLoadDocument ==
  /\ surfacePc = "idle"
  /\ readerLoadDocument
  /\ surfacePc' = "opened"
  /\ UNCHANGED << lastScrollEventTime, timers, fontChanges >>
  /\ ReaderFrame
  /\ SurfaceFrame

\* The page posts 'scrollNearEnd': onScrollNearEnd is loadMoreContent.
ReaderLoadMore ==
  /\ surfacePc = "opened"
  /\ surface # << >>
  /\ readerLoadMoreContent
  /\ UNCHANGED << markdownProp, webViewReadyRef, surfacePc, fontChanges >>
  /\ ReaderFrame
  /\ SurfaceFrame

NextAppend ==
  \/ ReaderLoadDocument
  \/ PageLoaded
  \/ ReaderLoadMore
  \/ ChangeFontSize
  \/ LoadingResetTimeout
  \/ Tick

SpecAppend == InitAppend /\ [][NextAppend]_vars

\* ------------------------------------------------------------------------
\* Properties
\* ------------------------------------------------------------------------

\* The window is a range of chunks of the document.
WindowInvariant ==
  /\ 0 <= firstLoadedChunk
  /\ firstLoadedChunk <= lastLoadedChunk
  /\ lastLoadedChunk < totalChunks

\* The text of chunk i, read off the document offset by offset: the
\* characters at the offsets p with i * CHUNK_SIZE <= p < (i + 1) * CHUNK_SIZE.
ChunkSlice(i) ==
  LET offsets == { p \in 0 .. (Len(fullContent) - 1) :
                     i * CHUNK_SIZE <= p /\ p < (i + 1) * CHUNK_SIZE }
  IN  [ k \in 1 .. Cardinality(offsets) |-> fullContent[i * CHUNK_SIZE + k] ]

\* The window a jump to chunk t is to load.
JumpWindowLast(t) == Min(t + INITIAL_CHUNK_COUNT - 1, totalChunks - 1)

\* C1: on a non-empty document, once loadInitialChunks has run, every state
\* reached by loadMoreContent, loadPreviousContent, loadInitialChunks and
\* jumps to chunks of the document has 0 <= first <= last < total.
C1_WindowInvariant ==
  (initialized /\ Len(fullContent) > 0) => WindowInvariant

\* C1 witness: a window that was extended backward to the first chunk and
\* reaches the last chunk of a document of at least three chunks.
C1_Witness ==
  /\ initialized
  /\ lastCall.op = "loadPreviousContent"
  /\ lastCall.ret # Null
  /\ firstLoadedChunk = 0
  /\ lastLoadedChunk = totalChunks - 1
  /\ totalChunks >= 3

\* C2 (as claimed): after loadInitialChunks(start, n) the window starts at a
\* chunk s of [0, total-1], the one nearest to start, and is exactly
\* [s, min(s+n-1, total-1)].
C2_LoadInitialWindow ==
  lastCall.op = "loadInitialChunks" =>
    /\ totalChunks = getTotalChunks
    /\ firstLoadedChunk \in 0 .. (totalChunks - 1)
    /\ lastCall.arg < 0 => firstLoadedChunk = 0
    /\ lastCall.arg > totalChunks - 1 => firstLoadedChunk = totalChunks - 1
    /\ lastCall.arg \in 0 .. (totalChunks - 1) => firstLoadedChunk = lastCall.arg
    /\ lastLoadedChunk = Min(firstLoadedChunk + lastCall.num - 1, totalChunks - 1)

C4_JumpOutOfRangeClamped ==
  (/\ lastCall.op = "jumpToChunk"
   /\ totalChunks >= 1
   /\ lastCall.arg \notin 0 .. (totalChunks - 1)) =>
    /\ firstLoadedChunk = (IF lastCall.arg < 0 THEN 0 ELSE totalChunks - 1)
    /\ WindowInvariant

C6_DebounceShared ==
  [][ /\ (/\ LoadPrevious
          /\ moreAdvancedAt >= 0
          /\ now - moreAdvancedAt < CHUNK_LOAD_DEBOUNCE_MS) =>
           /\ lastCall'.ret = Null
           /\ UNCHANGED << firstLoadedChunk, lastLoadedChunk, totalChunks >>
      /\ (/\ LoadMore
          /\ prevAdvancedAt >= 0
          /\ now - prevAdvancedAt < CHUNK_LOAD_DEBOUNCE_MS) =>
           /\ lastCall'.ret = Null
           /\ UNCHANGED << firstLoadedChunk, lastLoadedChunk, totalChunks >> ]_vars

\* C6 witness: a loadPreviousContent has returned null at the debounce
\* test, with the cooldown over and a previous chunk to load, less than the
\* debounce interval after a loadMoreContent that loaded a chunk and with
\* no backward load before.
C6_Witness ==
  /\ lastCall.op = "loadPreviousContent"
  /\ lastCall.ret = Null
  /\ lastCall.exit = "debounce"
  /\ moreAdvancedAt >= 0
  /\ prevAdvancedAt < 0
  /\ now - moreAdvancedAt < CHUNK_LOAD_DEBOUNCE_MS
  /\ firstLoadedChunk > 0

\* C7: loadMoreContent with the window at the last chunk, and
\* loadPreviousContent with the window at chunk 0, return null and leave the
\* window, the debounce timestamp, the in-flight flag and its timer as they
\* were.
C7_BoundaryNoOp ==
  [][ ( \/ (LoadMore /\ lastLoadedChunk = totalChunks - 1)
        \/ (LoadPrevious /\ firstLoadedChunk = 0) ) =>
        /\ lastCall'.ret = Null
        /\ UNCHANGED << firstLoadedChunk, lastLoadedChunk, totalChunks,
                        lastScrollEventTime, isLoadingMore, timers >> ]_vars

\* C7 witness: a loadMoreContent has returned null at the boundary test,
\* with the window at the last chunk of a document of several chunks, after
\* an earlier load.
C7_Witness ==
  /\ initialized
  /\ lastCall.op = "loadMoreContent"
  /\ lastCall.ret = Null
  /\ lastCall.exit = "boundary"
  /\ WindowInvariant
  /\ totalChunks >= 2
  /\ lastLoadedChunk = totalChunks - 1
  /\ lastScrollEventTime > 0

C10_EmptyDocumentOneSegment ==
  (lastCall.op = "loadInitialChunks" /\ Len(fullContent) = 0) =>
    /\ splitMarkdownIntoChunks(fullContent) = << MarkdownChunk(<< >>, 0, 0) >>
    /\ getTotalChunks = 1
    /\ totalChunks = 1

\* The offset at which chunk i starts when the chunks are laid end to end:
\* the lengths of the chunks before it, added up.
RECURSIVE ChunkStartOffset(_)
ChunkStartOffset(i) ==
  IF i <= 0 THEN 0
  ELSE ChunkStartOffset(i - 1) + Len(getChunkContent(i - 1))

\* C11: for every non-empty document the chunks 0 .. getTotalChunks - 1 are a
\* partition of it: chunk 0 is the text from offset 0, every chunk is the
\* text that starts where the chunk before it ends, the last chunk ends at
\* the length of the document, and no chunk is empty.
C11_ChunkTablePartition ==
  Len(fullContent) > 0 =>
    /\ getTotalChunks >= 1
    /\ \A i \in 0 .. (getTotalChunks - 1) :
         /\ Len(getChunkContent(i)) > 0
         /\ getChunkContent(i)
              = SubSeq(fullContent, ChunkStartOffset(i) + 1,
                       ChunkStartOffset(i) + Len(getChunkContent(i)))
    /\ ChunkStartOffset(getTotalChunks) = Len(fullContent)

\* The last chunk of a document of three chunks or more has been read and is
\* shorter than CHUNK_SIZE.
C11_Witness ==
  /\ query.fn = "getChunkContent"
  /\ getTotalChunks >= 3
  /\ query.arg = getTotalChunks - 1
  /\ Len(query.ret) > 0
  /\ Len(query.ret) < CHUNK_SIZE

\* C15: on a non-empty document, getChunkForPosition(offset) is the index of
\* the chunk that holds the offset when 0 <= offset < length, the index of
\* the last chunk when offset = length, and in every other case an index in
\* 0 .. getTotalChunks - 1.
C15_OffsetLookup ==
  (query.fn = "getChunkForPosition" /\ Len(fullContent) > 0) =>
    LET offset == query.arg
        i      == query.ret
    IN  /\ i \in 0 .. (getTotalChunks - 1)
        /\ (0 <= offset /\ offset < Len(fullContent)) =>
             /\ i * CHUNK_SIZE <= offset
             /\ offset < Min((i + 1) * CHUNK_SIZE, Len(fullContent))
        /\ offset = Len(fullContent) => i = getTotalChunks - 1

\* The chunks the call has closed so far, or returned.
ClosedChunks == IF splitPc = "done" THEN splitResult ELSE scan.chunks

\* The accumulated size of the lines ls: their lengths plus one per line.
RECURSIVE LinesSize(_)
LinesSize(ls) ==
  IF Len(ls) = 0 THEN 0 ELSE Len(ls[1]) + 1 + LinesSize(Tail(ls))

\* A level-1 or level-2 heading line: one or two "#", then whitespace.
Level12Heading(line) ==
  \E n \in 1 .. 2 :
    /\ Len(line) > n
    /\ \A k \in 1 .. n : line[k] = "#"
    /\ line[n + 1] \in Whitespace

\* The chunk contents cs one after the other.
RECURSIVE ConcatContents(_)
ConcatContents(cs) ==
  IF Len(cs) = 0 THEN << >> ELSE cs[1].content \o ConcatContents(Tail(cs))

\* C12: for every non-empty markdown string, the contents of the chunks
\* splitMarkdownIntoChunks returns, concatenated in index order, are the
\* input.
C12_ConcatReproducesInput ==
  (splitPc = "done" /\ Len(markdownArg) > 0) =>
    ConcatContents(splitResult) = markdownArg

\* C13: when the loop reaches a level-1 or level-2 heading line with the
\* accumulated size of the current chunk above 0.8 x target, that iteration
\* closes the current chunk before the line (the chunk ends at line i and
\* holds the lines accumulated so far) and the next chunk starts with the
\* heading at line i; chunks once closed are never changed, so the split
\* stays at the heading.
C13_HeadingPreferredSplit ==
  [][ /\ ( /\ SplitLine
           /\ Level12Heading(SplitLines(markdownArg)[lineIndex + 1])
           /\ 10 * scan.currentSize > 8 * TARGET_CHUNK_SIZE )
         => /\ scan'.chunks
                 = Append(scan.chunks,
                          MarkdownChunk(JoinLines(scan.currentChunk),
                                        scan.chunkStartLine, lineIndex))
            /\ scan'.currentChunk = << SplitLines(markdownArg)[lineIndex + 1] >>
            /\ scan'.chunkStartLine = lineIndex
      /\ SplitLine
         => SubSeq(scan'.chunks, 1, Len(scan.chunks)) = scan.chunks
      /\ SplitEnd
         => SubSeq(splitResult', 1, Len(scan.chunks)) = scan.chunks
    ]_vars

\* The loop has just closed a chunk of more than 0.8 x and at most 1.5 x
\* target before a heading, which starts the current chunk.
C13_Witness ==
  /\ splitPc = "scan"
  /\ Len(scan.chunks) >= 1
  /\ scan.chunkStartLine = lineIndex - 1
  /\ Len(scan.currentChunk) = 1
  /\ Level12Heading(scan.currentChunk[1])
  /\ LET closed == scan.chunks[Len(scan.chunks)]
         size   == LinesSize(SplitLines(closed.content))
     IN  /\ closed.endLine = lineIndex - 1
         /\ 10 * size > 8 * TARGET_CHUNK_SIZE
         /\ 2 * size <= 3 * TARGET_CHUNK_SIZE

\* C14: for every chunk, closed or returned, the accumulated size of all its
\* lines except the last is at most 1.5 x target.
C14_ForceSplitBound ==
  \A k \in 1 .. Len(ClosedChunks) :
    LET ls == SplitLines(ClosedChunks[k].content)
    IN  2 * LinesSize(SubSeq(ls, 1, Len(ls) - 1)) <= 3 * TARGET_CHUNK_SIZE

\* The call has returned this record: the same value for every property,
\* a property left out of one being undefined in the other.
SameRecord(a, b) ==
  \A f \in PositionFields :
    /\ IsUndefined(a, f) = IsUndefined(b, f)
    /\ ~ IsUndefined(a, f) => a[f] = b[f]

\* C16: while calls do not overlap and no storage operation fails, a
\* getReadingPosition(d) that completes returns the record written by the
\* last completed save for d, property by property, and null when d was
\* never saved.
C16_StoreRoundTrip ==
  [][ \A c \in CallIds :
        ( /\ calls[c].op = "get"
          /\ calls[c].pc = "read"
          /\ calls'[c].pc = "done"
          /\ cleanRun' )
        => IF latest[calls[c].documentId] = << >>
           THEN calls'[c].result = << >>
           ELSE /\ calls'[c].result # << >>
                /\ SameRecord(calls'[c].result, latest[calls[c].documentId])
    ]_vars

\* A document was saved with a chunkIndex, then without one, and the
\* following get returned the later record, which has no chunkIndex.
C16_Witness ==
  \E c, g \in CallIds :
    /\ cleanRun
    /\ calls[g].op = "save"
    /\ calls[g].pc = "done"
    /\ calls[g].chunkIndex # Undefined
    /\ calls[c].op = "get"
    /\ calls[c].pc = "done"
    /\ calls[c].documentId = calls[g].documentId
    /\ calls[c].result # << >>
    /\ IsUndefined(calls[c].result, "chunkIndex")
    /\ calls[c].result.timestamp > calls[g].record.timestamp

\* C17: no call of saveReadingPosition or getReadingPosition rejects,
\* whatever fails in the store, and a completed getReadingPosition has
\* returned null or a record of its document.
C17_StorageFailuresContained ==
  \A c \in CallIds :
    /\ calls[c].outcome # "rejected"
    /\ calls[c].pc = "done" => calls[c].outcome = "resolved"
    /\ (calls[c].op = "get" /\ calls[c].pc = "done") =>
         \/ calls[c].result = << >>
         \/ /\ "documentId" \in DOMAIN calls[c].result
            /\ calls[c].result.documentId = calls[c].documentId

\* A save whose setItem failed has completed, and a get read a store that
\* failed.
C17_Witness ==
  \E c, g \in CallIds :
    /\ calls[c].op = "save" /\ calls[c].pc = "done" /\ calls[c].failed
    /\ calls[g].op = "get" /\ calls[g].pc = "done" /\ calls[g].failed

\* The saved record names a heading the document does not have.
SavedHeadingMissing ==
  /\ savedPosition # NoPosition
  /\ savedPosition.headingId # Undefined
  /\ PositionOfHeading(headingPositions, savedPosition.headingId) = Undefined

\* The offset the rendering surface is at after the restore.
RestoredOffset == IF scrolledTo.kind = "pixel" THEN scrolledTo.value ELSE 0

\* C18: when a non-empty document is opened with a saved record that names a
\* heading the document does not have, the restore ends at the record's
\* scrollOffset, in the window that starts at the record's chunkIndex
\* (chunk 0 without one; clamped to the document), and the starting chunk
\* is a chunk of the document.
C18_ReconciliationFallback ==
  (restorePc = "restored" /\ SavedHeadingMissing) =>
    /\ scrolledTo.kind # "heading"
    /\ RestoredOffset = savedPosition.scrollOffset
    /\ firstLoadedChunk
         = Max(0, Min(IF savedPosition.chunkIndex = Undefined THEN 0
                      ELSE savedPosition.chunkIndex,
                      totalChunks - 1))
    /\ 0 <= firstLoadedChunk
    /\ firstLoadedChunk < totalChunks

\* The record of document d in the stored item, << >> without one.
StoredRecord(item, d) ==
  IF item.kind = "json" /\ d \in DOMAIN item.value THEN item.value[d] ELSE << >>

\* C19: once onBack has been invoked, the saveReadingPosition call made by
\* the Close handler is not pending: it was awaited until it settled.
C19_CloseWaitsForSave ==
  closePc = "closed" => ~ Pending(SaveCallOf("close"))

\* onBack has been invoked after the closing save was made and settled.
C19_Witness ==
  /\ closePc = "closed"
  /\ calls[SaveCallOf("close")].op = "save"
  /\ calls[SaveCallOf("close")].pc = "done"

\* C20: once onBack has been invoked, the stored position record of the
\* document is not written again.
C20_NoStaleWrite ==
  [][ closePc = "closed"
        => StoredRecord(storage', OpenDocument) = StoredRecord(storage, OpenDocument)
    ]_vars

\* C21 (as claimed): once the first chunks are loaded, the window holds at
\* most INITIAL_CHUNK_COUNT chunks (last - first + 1 <= 3) in every state,
\* after any number of loadMoreContent and loadPreviousContent calls that
\* loaded a chunk.
C21_WindowAtMostThree ==
  initialized => lastLoadedChunk - firstLoadedChunk + 1 <= INITIAL_CHUNK_COUNT

\* C22 (as claimed): jumpToChunk(t) with a chunk t of the document loads
\* the window centred on t, [t-1, t+1], clipped at chunk 0 and at the last
\* chunk.
C22_JumpCentred ==
  (lastCall.op = "jumpToChunk" /\ lastCall.arg \in 0 .. (totalChunks - 1)) =>
    /\ firstLoadedChunk = Max(0, lastCall.arg - 1)
    /\ lastLoadedChunk = Min(lastCall.arg + 1, totalChunks - 1)

\* The time of the last loadMoreContent or loadPreviousContent that loaded a
\* chunk, -1 without one.
LastAdvancedAt == Max(moreAdvancedAt, prevAdvancedAt)

\* C24: a loadMoreContent or loadPreviousContent that returns null leaves the
\* debounce timestamp as it was; and one called at least
\* CHUNK_LOAD_DEBOUNCE_MS after the last one that loaded a chunk, with the
\* cooldown timer of that load run and a chunk to load on its side, loads
\* the chunk, whatever calls returned null in between.
C24_RejectedKeepsTimestamp ==
  [][ /\ ((LoadMore \/ LoadPrevious) /\ lastCall'.ret = Null) =>
           lastScrollEventTime' = lastScrollEventTime
      /\ (/\ LoadMore
          /\ timers = {}
          /\ now - LastAdvancedAt >= CHUNK_LOAD_DEBOUNCE_MS
          /\ lastLoadedChunk + 1 < totalChunks) =>
           /\ lastCall'.ret # Null
           /\ lastLoadedChunk' = lastLoadedChunk + 1
      /\ (/\ LoadPrevious
          /\ timers = {}
          /\ now - LastAdvancedAt >= CHUNK_LOAD_DEBOUNCE_MS
          /\ firstLoadedChunk > 0) =>
           /\ lastCall'.ret # Null
           /\ firstLoadedChunk' = firstLoadedChunk - 1 ]_vars

\* C24 witness: a loadPreviousContent has loaded a chunk the debounce
\* interval after a loadMoreContent that loaded one, directly after a call
\* that returned null at the debounce test.
C24_Witness ==
  /\ lastCall.op = "loadPreviousContent"
  /\ lastCall.ret # Null
  /\ lastCall.after = << "debounce" >>
  /\ moreAdvancedAt >= 0
  /\ prevAdvancedAt = now
  /\ now - moreAdvancedAt >= CHUNK_LOAD_DEBOUNCE_MS

\* C23: a loadMoreContent or loadPreviousContent that loads a chunk sets the
\* in-flight flag; a loadMoreContent or loadPreviousContent called while the
\* flag is set returns null and leaves the window as it was; and a set flag
\* is eventually cleared, by the cooldown timer, whether further calls are
\* made or not.
C23_InFlightCooldown ==
  /\ [][ ((LoadMore \/ LoadPrevious) /\ lastCall'.ret # Null) => isLoadingMore' ]_vars
  /\ [][ ((LoadMore \/ LoadPrevious) /\ isLoadingMore) =>
           /\ lastCall'.ret = Null
           /\ UNCHANGED << firstLoadedChunk, lastLoadedChunk, totalChunks,
                           currentContent >> ]_vars
  /\ (isLoadingMore ~> ~ isLoadingMore)

\* C23 witness: a loadMoreContent loaded a chunk and set the flag, no call
\* was made after it, and LOADING_RESET_DELAY_MS or more later the flag is
\* clear and the timer gone.
C23_Witness ==
  /\ lastCall.op = "loadMoreContent"
  /\ lastCall.ret # Null
  /\ moreAdvancedAt >= 0
  /\ now >= moreAdvancedAt + LOADING_RESET_DELAY_MS
  /\ ~ isLoadingMore
  /\ timers = {}

\* C28 (as claimed): when two saveReadingPosition calls for different
\* documents, the only calls made, have both completed without a storage
\* failure, the stored item holds the record of each of the two documents,
\* however the steps of the two calls were interleaved.
C28_ConcurrentSavesBothKept ==
  \A c, o \in CallIds :
    (/\ storeClock = 2
     /\ calls[c].op = "save" /\ calls[c].pc = "done" /\ ~ calls[c].failed
     /\ calls[o].op = "save" /\ calls[o].pc = "done" /\ ~ calls[o].failed
     /\ calls[c].documentId # calls[o].documentId) =>
      /\ StoredRecord(storage, calls[c].documentId) # << >>
      /\ StoredRecord(storage, calls[o].documentId) # << >>

\* C29 (as claimed): the write of a saveReadingPosition for one document,
\* made while no other call of the store was in progress, leaves the stored
\* record of every other document as it was, also when the read inside the
\* save failed and the write succeeds.
C29_SaveKeepsOtherDocuments ==
  [][ \A c \in CallIds :
        (/\ calls[c].op = "save"
         /\ calls[c].pc = "write"
         /\ calls[c].alone
         /\ calls'[c].pc = "done") =>
          \A d \in DocumentIds \ { calls[c].documentId } :
            StoredRecord(storage', d) = StoredRecord(storage, d) ]_vars

\* C26 (as claimed): once the user has confirmed Close, onBack is eventually
\* invoked, however the closing save's getScrollPosition is interleaved
\* with the request of an auto-save tick and with the replies.
C26_CloseTerminates == (closePc = "scroll") ~> (closePc = "closed")

\* C27 (as claimed): a save of the Close handler or of the auto-save interval
\* whose position is the fallback 0 of getScrollPosition (WebView not ready,
\* or reply timed out) does not replace a stored position of the document
\* that is not 0.
C27_FallbackNeverPersisted ==
  [][ \A saver \in { "close", "auto" } :
        (/\ calls[SaveCallOf(saver)].op = "save"
         /\ calls[SaveCallOf(saver)].pc = "write"
         /\ calls'[SaveCallOf(saver)].pc = "done"
         /\ saver \in fallbacks
         /\ StoredRecord(storage, OpenDocument) # << >>
         /\ StoredRecord(storage, OpenDocument).scrollOffset > 0) =>
          StoredRecord(storage', OpenDocument) = StoredRecord(storage, OpenDocument)
    ]_vars

\* The headings of the rendered markdown, in DOM order, each by its 0-based
\* place among all headings of the document.
GlobalOrdinals(markdown) ==
  LET headingChars == SelectSeq(markdown, IsHeadingChar)
  IN  [ j \in 1 .. Len(headingChars) |-> HeadingsBefore(OffsetOf(headingChars[j])) ]

\* C25 (as claimed): every heading of the page has the id heading-k where k
\* is its 0-based place among all headings of the document, after the
\* initial render and any appendContent, prependContent and replaceContent.
C25_HeadingIdsGlobal == headingIds = GlobalOrdinals(surface)

\* C30 (as claimed): in the append-only reader the page that is ready shows
\* content[0, currentLoadedEnd); currentLoadedEnd does not exceed the length
\* of the document and never decreases, also over an append and over a
\* rebuild of the page.
C30_SurfaceIsLoadedPrefix ==
  /\ [](webViewReadyRef => surface = Substring(fullContent, 0, currentLoadedEndRef))
  /\ [](currentLoadedEndRef <= Len(fullContent))
  /\ [][currentLoadedEndRef' >= currentLoadedEndRef]_vars

====
